---- MODULE Spec2Model ----
(***************************************************************************)
(* Models of the build execution core, one specification per component.  *)
(*                                                                         *)
(* Spec: the check coordinator, checkDelegate.WaitToRun, run concurrently *)
(* by several ATC nodes against one resource config scope (its LastCheck  *)
(* record and its advisory resource-checking lock).  The variables of the *)
(* other specifications stay at their idle values, and vice versa.        *)
(*                                                                         *)
(* The nodes execute the same check: one plan and one build.              *)
(* A WaitToRun call is split at its suspension points (limiter.Wait, the  *)
(* scope.LastCheck query, AcquireResourceCheckingLock, the one second     *)
(* sleep), each of which is one atomic step of the calling node.          *)
(* Time is an integer clock; Go's Time.Before / Time.After are the strict *)
(* orders < and >.                                                         *)
(***************************************************************************)
EXTENDS Integers, FiniteSets, Sequences, TLC

\* ---------------------------------------------------------------- bounds
MaxTime == 3         \* the clock stops advancing here
MaxInterval == 2     \* largest plan.Interval.Interval
MaxRetries == 2      \* lock attempts one WaitToRun call makes at most

StartClock == 1      \* clock value when the calls start

\* The ATC nodes that call WaitToRun on the same scope.
Nodes == {"atc1", "atc2"}
NoNode == "none"

VARIABLES
    plan,            \* the atc.CheckPlan of the check the nodes execute
    build,           \* CreateTime and StartTime of the check's build
    now,             \* clock.Now()
    lastCheck,       \* the scope's LastCheck record
    lockHolder,      \* node holding the resource-checking lock, or NoNode
    ctxDone,         \* nodes whose context has been cancelled
    pc,              \* pc[n]: position of node n in WaitToRun / its caller
    ret,             \* ret[n]: what WaitToRun returned to node n
    limiterCalls,    \* limiterCalls[n]: calls of limiter.Wait
    lastCheckCalls,  \* lastCheckCalls[n]: calls of scope.LastCheck
    acquireCalls     \* acquireCalls[n]: calls of AcquireResourceCheckingLock

vars == <<plan, build, now, lastCheck, lockHolder, ctxDone, pc, ret,
          limiterCalls, lastCheckCalls, acquireCalls>>

\* State of the step builder (specification SpecBuild).
VARIABLES
    bpc,             \* position: "entry", "node" (buildStep about to run), "built", "rejected"
    bentry,          \* the entry point called and its build / check argument
    bnode,           \* variant fields populated in the plan node being built
    blen,            \* number of children of the node's list variant
    battempts,       \* plan.Attempts of the node being built (a slice)
    bstep,           \* kind of exec.Step built for the node
    berr,            \* error returned by the entry point
    bfactory,        \* number of StepFactory calls made
    bdepth,          \* nesting depth of the node in the plan
    bretries         \* enclosing Retry plans, outermost first: attempt taken, attempts listed

builderVars == <<bpc, bentry, bnode, blen, battempts, bstep, berr, bfactory,
                 bdepth, bretries>>

\* The variables that the check coordinator leaves alone, and those that the
\* step builder leaves alone.
\* State of one compiled Do step being run (specification SpecDo).
VARIABLES
    dpc,             \* position: "plan", "run", "done"
    dout,            \* dout[i]: how the i-th child of the Do plan ends when it is run
    dtree,           \* the compiled step, then the part of it still to run
    dlog,            \* children run so far, in the order they were started
    dres             \* result of the compiled step

doVars == <<dpc, dout, dtree, dlog, dres>>

\* State of one Across plan being compiled and run (specification SpecAcross).
VARIABLES
    apc,             \* position: "plan", "built", "panicked", "done"
    aplan,           \* the atc.AcrossPlan: Vars, Steps, FailFast
    afail,           \* whether the substeps fail when they are run
    atree,           \* the step buildAcrossInParallelStep returned
    ares             \* result of running that step

acrossVars == <<apc, aplan, afail, atree, ares>>

\* State of one fetchImageForContainer call (specification SpecImage).
VARIABLES
    ipc,             \* position in fetchImageForContainer and the function it calls
    ispec,           \* the runtime.ImageSpec
    ilookup,         \* what findVolumeForArtifact returned
    ivols,           \* volumes created on the worker by the call, in order
    iops,            \* calls made after the lookup, in order, each with its success
    iret             \* the FetchedImage and error returned

imageVars == <<ipc, ispec, ilookup, ivols, iops, iret>>

\* State of one PointToCheckedConfig call (specification SpecPoint).
VARIABLES
    qpc,             \* position: "lookup", "bind", "returned"
    qplan,           \* the names in the atc.CheckPlan
    qpipeline,       \* the entities the pipeline has
    qcachedPipeline, \* d.cachedPipeline != nil
    qcached,         \* entities cached in the delegate by earlier lookups
    qidx,            \* which of resource, resource type, prototype is being handled
    qops,            \* calls made on the build, the pipeline and the entities, in order
    qret             \* the error returned

pointVars == <<qpc, qplan, qpipeline, qcachedPipeline, qcached, qidx, qops, qret>>

\* State of two sibling Get steps run in parallel (specification SpecGet).
VARIABLES
    gpc,             \* gpc[g]: position of step g in GetStep.run
    gplan,           \* gplan[g]: Name and Resource of the step's atc.GetPlan
    gexit,           \* gexit[g]: getResult.ExitStatus, once RunGetStep returned it
    gtrace,          \* gtrace[g]: calls made on the delegate and the repository, in order
    grepo,           \* the artifact repository: the step whose artifact a name is bound to
    greg,            \* greg[g]: what RegisterArtifact answered to step g
    gsucceeded,      \* gsucceeded[g]: step.succeeded
    gret             \* gret[g]: what Run returned

getVars == <<gpc, gplan, gexit, gtrace, grepo, greg, gsucceeded, gret>>

others == <<builderVars, doVars, acrossVars, imageVars, pointVars, getVars>>
buildRest == <<vars, doVars, acrossVars, imageVars, pointVars, getVars>>
doRest == <<vars, builderVars, acrossVars, imageVars, pointVars, getVars>>
acrossRest == <<vars, builderVars, doVars, imageVars, pointVars, getVars>>
imageRest == <<vars, builderVars, doVars, acrossVars, pointVars, getVars>>
pointRest == <<vars, builderVars, doVars, acrossVars, imageVars, getVars>>
getRest == <<vars, builderVars, doVars, acrossVars, imageVars, pointVars>>

\* ------------------------------------------------------------ data types
\* atc.CheckPlan, the fields WaitToRun reads.  FromVersion is "nil" or a
\* version; the three names are "" when unset.
CheckPlans ==
    [SkipInterval : BOOLEAN,
     Never        : BOOLEAN,
     Interval     : 1..MaxInterval,
     FromVersion  : {"nil", "v1"},
     Resource     : {"", "r"},
     ResourceType : {"", "t"},
     Prototype    : {"", "p"}]

\* A plan names at most one of resource, resource type and prototype.
WellFormedPlan(p) ==
    Cardinality({f \in {"Resource", "ResourceType", "Prototype"} : p[f] # ""}) <= 1

\* CheckPlan.IsPeriodic: the check is for a pipeline resource, resource type
\* or prototype, rather than embedded in a build step.
IsPeriodic(p) ==
    p.Resource # "" \/ p.ResourceType # "" \/ p.Prototype # ""

\* The three results of WaitToRun: (lock, shouldRun, err).  "nil" is the nil
\* lock, "noop" lock.NoopLock{}, "real" the acquired resource-checking lock.
NoRet == [lock |-> "none", shouldRun |-> FALSE, err |-> "none"]
\* Results that tell the caller to run whatever the call decided.
Returned_Run(l, run, e) == [lock |-> l, shouldRun |-> TRUE, err |-> e]

Returned(l, run, e) == [lock |-> l, shouldRun |-> run, err |-> e]

\* ------------------------------------------------------------------ Init
Init ==
    /\ plan \in {p \in CheckPlans : WellFormedPlan(p)}
    /\ build \in {b \in [CreateTime : 0..StartClock, StartTime : 0..StartClock] :
                        b.CreateTime <= b.StartTime}
    /\ now = StartClock
    /\ lastCheck \in {l \in [Succeeded : BOOLEAN, StartTime : 0..StartClock,
                             EndTime : 0..StartClock] : l.StartTime <= l.EndTime}
    /\ lockHolder = NoNode
    /\ ctxDone = {}
    /\ pc = [n \in Nodes |-> "start"]
    /\ ret = [n \in Nodes |-> NoRet]
    /\ limiterCalls = [n \in Nodes |-> 0]
    /\ lastCheckCalls = [n \in Nodes |-> 0]
    /\ acquireCalls = [n \in Nodes |-> 0]

\* ------------------------------------------------------------- WaitToRun
\* WaitToRun returns (l, run, e) to node n.
Return(n, l, run, e) ==
    /\ pc' = [pc EXCEPT ![n] = "returned"]
    /\ ret' = [ret EXCEPT ![n] = Returned(l, run, e)]

\* "exit early if user specified to never run periodic checks".
NeverExit_IgnoreSkip(p) ==
    p.Never

NeverExit(p) ==
    ~p.SkipInterval /\ p.Never

\* "rate limit periodic resource checks": evaluated when NeverExit is false.
RateLimited_IgnoreSkip(p) ==
    p.Resource # ""

RateLimited_AnyCheck(p) ==
    ~p.SkipInterval

RateLimited(p) ==
    ~p.SkipInterval /\ p.Resource # ""

\* Entry of WaitToRun: the Never early exit and the decision to rate limit.
Enter(n, p) ==
    /\ pc[n] = "start"
    /\ IF NeverExit(p)
         THEN Return(n, "nil", FALSE, "nil")
         ELSE /\ pc' = [pc EXCEPT ![n] = IF RateLimited(p) THEN "limiter" ELSE "lastCheck"]
              /\ ret' = ret
    /\ UNCHANGED <<others, plan, build, now, lastCheck, lockHolder, ctxDone,
                   limiterCalls, lastCheckCalls, acquireCalls>>

\* d.limiter.Wait(ctx): a token, or an error (cancellation included).
LimiterWait(n) ==
    /\ pc[n] = "limiter"
    /\ limiterCalls' = [limiterCalls EXCEPT ![n] = @ + 1]
    /\ \E ok \in BOOLEAN :
         IF ok THEN pc' = [pc EXCEPT ![n] = "lastCheck"] /\ ret' = ret
               ELSE Return(n, "nil", FALSE, "rate limit")
    /\ UNCHANGED <<others, plan, build, now, lastCheck, lockHolder, ctxDone,
                   lastCheckCalls, acquireCalls>>

\* The manual-check reuse test.
ManualReuse_Inclusive(p, b, last) ==
    p.FromVersion = "nil" /\ last.Succeeded /\ b.CreateTime <= last.StartTime

ManualReuse_NoFromVersion(p, b, last) ==
    last.Succeeded /\ b.CreateTime < last.StartTime

ManualReuse(p, b, last) ==
    p.FromVersion = "nil" /\ last.Succeeded /\ b.CreateTime < last.StartTime

\* The interval gate of a periodic check: true when the check must not run.
IntervalGate_Inclusive(p, last, t) ==
    t <= last.EndTime + p.Interval

IntervalGate(p, last, t) ==
    t < last.EndTime + p.Interval

\* The reuse test of a check embedded in a build step.
EmbeddedReuse_NoSucceeded(b, last) ==
    last.EndTime > b.StartTime

EmbeddedReuse(b, last) ==
    last.Succeeded /\ last.EndTime > b.StartTime

\* scope.LastCheck() and the decision taken on its result.
DecideOnLastCheck(n, p) ==
    /\ pc[n] = "lastCheck"
    /\ \E ok \in BOOLEAN :
         IF ~ok THEN Return(n, "nil", FALSE, "last check")
         ELSE IF IsPeriodic(p)
           THEN IF p.SkipInterval
                  THEN IF ManualReuse(p, build, lastCheck)
                         THEN Return(n, "nil", FALSE, "nil")
                         ELSE pc' = [pc EXCEPT ![n] = "acquire"] /\ ret' = ret
                  ELSE IF IntervalGate(p, lastCheck, now)
                         THEN Return(n, "nil", FALSE, "nil")
                         ELSE pc' = [pc EXCEPT ![n] = "acquire"] /\ ret' = ret
           ELSE IF EmbeddedReuse(build, lastCheck)
                  THEN Return(n, "nil", FALSE, "nil")
                  ELSE Return(n, "noop", TRUE, "nil")
    /\ UNCHANGED <<others, plan, build, now, lastCheck, lockHolder, ctxDone>>

\* ... with the call of scope.LastCheck counted.
ReadLastCheck(n, p) ==
    /\ DecideOnLastCheck(n, p)
    /\ lastCheckCalls' = [lastCheckCalls EXCEPT ![n] = @ + 1]
    /\ UNCHANGED <<limiterCalls, acquireCalls>>

\* scope.AcquireResourceCheckingLock: the lock is granted to one holder at a
\* time; the result is the new holder.
AcquireResourceCheckingLock(holder, n) ==
    IF holder = NoNode THEN n ELSE holder

\* What the call returns once the lock is acquired: break, return lock, true, nil.
AcquiredReturn_Skip ==
    Returned("nil", FALSE, "nil")

AcquiredReturn ==
    Returned("real", TRUE, "nil")

\* A loop that never sees the lock as acquired.
Acquired_Never(before, after, n) ==
    FALSE

\* acquired, as AcquireResourceCheckingLock reports it to node n.
Acquired(before, after, n) ==
    after = n /\ before # n

\* The lock attempt of the loop: error, acquired (break, return) or not.
TryLock(n) ==
    /\ pc[n] = "acquire"
    /\ \E ok \in BOOLEAN :
         IF ~ok THEN Return(n, "nil", FALSE, "acquire lock") /\ lockHolder' = lockHolder
         ELSE /\ lockHolder' = AcquireResourceCheckingLock(lockHolder, n)
              /\ IF Acquired(lockHolder, lockHolder', n)
                   THEN pc' = [pc EXCEPT ![n] = "returned"] /\ ret' = [ret EXCEPT ![n] = AcquiredReturn]
                   ELSE pc' = [pc EXCEPT ![n] = "sleep"] /\ ret' = ret
    /\ UNCHANGED <<others, plan, build, now, lastCheck, ctxDone>>

\* ... with the call of AcquireResourceCheckingLock counted.
AcquireLock(n) ==
    /\ TryLock(n)
    /\ acquireCalls' = [acquireCalls EXCEPT ![n] = @ + 1]
    /\ UNCHANGED <<limiterCalls, lastCheckCalls>>

\* select { <-ctx.Done(): ...; <-d.clock.After(time.Second): }
SelectRetry(n) ==
    /\ pc[n] = "sleep"
    /\ IF n \in ctxDone
         THEN Return(n, "nil", FALSE, "ctx")
         ELSE /\ pc' = [pc EXCEPT ![n] = "lastCheck"]
              /\ ret' = ret
    /\ UNCHANGED <<others, plan, build, now, lastCheck, lockHolder, ctxDone>>

\* ... for a call that has lock attempts left.
RetrySleep(n) ==
    /\ SelectRetry(n)
    /\ n \notin ctxDone => acquireCalls[n] < MaxRetries
    /\ UNCHANGED <<limiterCalls, lastCheckCalls, acquireCalls>>

\* ----------------------------------------------------------- environment
\* The caller of WaitToRun runs the check when told to: it records the start
\* time, and at the end the end time and the outcome, and releases the lock.
CheckStart(n) ==
    /\ pc[n] = "returned"
    /\ ret[n].shouldRun
    /\ pc' = [pc EXCEPT ![n] = "checking"]
    /\ lastCheck' = [lastCheck EXCEPT !.StartTime = now]
    /\ UNCHANGED <<others, plan, build, now, lockHolder, ctxDone, ret,
                   limiterCalls, lastCheckCalls, acquireCalls>>

CheckEnd(n) ==
    /\ pc[n] = "checking"
    /\ pc' = [pc EXCEPT ![n] = "done"]
    /\ \E ok \in BOOLEAN :
         lastCheck' = [lastCheck EXCEPT !.EndTime = now, !.Succeeded = ok]
    /\ lockHolder' = IF lockHolder = n THEN NoNode ELSE lockHolder
    /\ UNCHANGED <<others, plan, build, now, ctxDone, ret,
                   limiterCalls, lastCheckCalls, acquireCalls>>

\* The context of a call is cancelled.  WaitToRun looks at ctx.Done() only in
\* the select of its retry sleep (limiter.Wait reports a cancellation as its
\* error), so a cancellation is modelled when the call is at that select.
Cancel(n) ==
    /\ pc[n] = "sleep"
    /\ n \notin ctxDone
    /\ ctxDone' = ctxDone \cup {n}
    /\ UNCHANGED <<others, plan, build, now, lastCheck, lockHolder, pc, ret,
                   limiterCalls, lastCheckCalls, acquireCalls>>

\* The clock advances.
Tick ==
    /\ now < MaxTime
    /\ now' = now + 1
    /\ UNCHANGED <<others, plan, build, lastCheck, lockHolder, ctxDone, pc, ret,
                   limiterCalls, lastCheckCalls, acquireCalls>>

Next ==
    \/ \E n \in Nodes : Enter(n, plan)
    \/ \E n \in Nodes : LimiterWait(n)
    \/ \E n \in Nodes : ReadLastCheck(n, plan)
    \/ \E n \in Nodes : AcquireLock(n)
    \/ \E n \in Nodes : RetrySleep(n)
    \/ \E n \in Nodes : CheckStart(n)
    \/ \E n \in Nodes : CheckEnd(n)
    \/ \E n \in Nodes : Cancel(n)
    \/ Tick

\* No node has a check to coordinate.
WaitIdle ==
    /\ plan = "idle" /\ build = "idle" /\ now = 0 /\ lastCheck = "idle"
    /\ lockHolder = NoNode /\ ctxDone = {}
    /\ pc = [n \in Nodes |-> "idle"] /\ ret = [n \in Nodes |-> NoRet]
    /\ limiterCalls = [n \in Nodes |-> 0]
    /\ lastCheckCalls = [n \in Nodes |-> 0]
    /\ acquireCalls = [n \in Nodes |-> 0]

\* The step builder has not been called.
BuildIdle ==
    /\ bpc = "idle" /\ bentry = "idle" /\ bnode = {} /\ blen = 0
    /\ battempts = "idle" /\ bstep = "none" /\ berr = "none" /\ bfactory = 0
    /\ bdepth = 0 /\ bretries = <<>>

\* No Do step is run.
DoIdle ==
    dpc = "idle" /\ dout = <<>> /\ dtree = <<>> /\ dlog = <<>> /\ dres = "none"

AcrossIdle ==
    /\ apc = "idle" /\ aplan = "idle" /\ afail = FALSE
    /\ atree = "none" /\ ares = "none"

ImageIdle ==
    /\ ipc = "idle" /\ ispec = "idle" /\ ilookup = "idle"
    /\ ivols = <<>> /\ iops = <<>> /\ iret = "idle"

\* PointToCheckedConfig has not been called.
PointIdle ==
    /\ qpc = "idle" /\ qplan = "idle" /\ qpipeline = {} /\ qcachedPipeline = FALSE
    /\ qcached = {} /\ qidx = 0 /\ qops = <<>> /\ qret = "idle"

\* No Get step is run.
GetIdle ==
    /\ gpc = "idle" /\ gplan = "idle" /\ gexit = "idle" /\ gtrace = "idle"
    /\ grepo = "idle" /\ greg = "idle" /\ gsucceeded = "idle" /\ gret = "idle"

\* The check coordinator alone.
WaitInit ==
    Init /\ BuildIdle /\ DoIdle /\ AcrossIdle /\ ImageIdle /\ PointIdle /\ GetIdle

Spec == WaitInit /\ [][Next]_<<vars, others>>

TypeOK ==
    /\ plan \in CheckPlans
    /\ now \in 0..MaxTime
    /\ lockHolder \in Nodes \cup {NoNode}
    /\ ctxDone \subseteq Nodes
    /\ pc \in [Nodes -> {"start", "limiter", "lastCheck", "acquire", "sleep",
                         "returned", "checking", "done"}]
\* ================================================================ claims
\* Node n has come back from WaitToRun (and may have gone on to its check).
HasReturned(n) == pc[n] \in {"returned", "checking", "done"}

\* Node n takes the step that follows its scope.LastCheck() query, and the
\* query did not fail.
LastCheckStep(n) ==
    pc[n] = "lastCheck" /\ pc'[n] # "lastCheck" /\ ret'[n].err # "last check"

\* Node n takes its AcquireResourceCheckingLock step, and the call did not fail.
AcquireStep(n) ==
    pc[n] = "acquire" /\ pc'[n] # "acquire" /\ ret'[n].err # "acquire lock"

PeriodicPlan == IsPeriodic(plan) /\ ~plan.SkipInterval /\ ~plan.Never
ManualPlan == IsPeriodic(plan) /\ plan.SkipInterval

\* C1: interval gate.  For a periodic check (SkipInterval false, Never false)
\* whose LastCheck query succeeds: if now < lastCheck.EndTime + Interval when
\* LastCheck is read, the call returns (nil, false, nil) in that iteration
\* without an AcquireResourceCheckingLock attempt and without touching the
\* lock; if now >= lastCheck.EndTime + Interval (boundary included) it goes on
\* to the lock attempt, and an attempt on a free lock acquires it and returns
\* (lock, true, nil).
C1_IntervalGate ==
    [][\A n \in Nodes : PeriodicPlan =>
          /\ LastCheckStep(n) =>
               IF now < lastCheck.EndTime + plan.Interval
                 THEN /\ pc'[n] = "returned"
                      /\ ret'[n] = Returned("nil", FALSE, "nil")
                      /\ acquireCalls'[n] = acquireCalls[n]
                      /\ lockHolder' = lockHolder
                 ELSE pc'[n] = "acquire" /\ ret'[n] = NoRet
          /\ (AcquireStep(n) /\ lockHolder = NoNode) =>
               /\ pc'[n] = "returned"
               /\ ret'[n] = Returned("real", TRUE, "nil")
               /\ lockHolder' = n]_vars

\* C1 witness: a periodic check returned (lock, true) on its first attempt at
\* the boundary now = lastCheck.EndTime + Interval.
C1_Witness ==
    \E n \in Nodes :
        /\ PeriodicPlan /\ pc[n] = "returned"
        /\ ret[n] = Returned("real", TRUE, "nil")
        /\ lockHolder = n /\ acquireCalls[n] = 1
        /\ now = lastCheck.EndTime + plan.Interval

C3_ManualReuse ==
    [][\A n \in Nodes : ManualPlan =>
          LET reuse == /\ plan.FromVersion = "nil"
                       /\ lastCheck.Succeeded
                       /\ build.CreateTime < lastCheck.StartTime
          IN /\ (ret'[n] # ret[n] /\ ret'[n].err = "nil" /\ ~ret'[n].shouldRun) =>
                   (pc[n] = "lastCheck" /\ reuse)
             /\ (LastCheckStep(n) /\ ~reuse) =>
                   (pc'[n] = "acquire" /\ ret'[n] = NoRet)]_vars

\* C3 witness: a manual check acquired the lock and was told to run although
\* the interval since the last check has not elapsed.
C3_Witness ==
    \E n \in Nodes :
        /\ ManualPlan /\ pc[n] = "returned"
        /\ ret[n] = Returned("real", TRUE, "nil")
        /\ now < lastCheck.EndTime + plan.Interval

\* C4: rate limiter scope.  A WaitToRun call invokes limiter.Wait at most
\* once, never when SkipInterval is true and never when plan.Resource is
\* empty.
C4_LimiterScope ==
    \A n \in Nodes :
        /\ limiterCalls[n] <= 1
        /\ plan.SkipInterval => limiterCalls[n] = 0 /\ pc[n] # "limiter"
        /\ plan.Resource = "" => limiterCalls[n] = 0 /\ pc[n] # "limiter"

\* C4 witness: a manual check of a resource ran to its return without a call
\* of limiter.Wait.
C4_Witness ==
    \E n \in Nodes :
        /\ plan.SkipInterval /\ plan.Resource # ""
        /\ pc[n] = "returned" /\ ret[n].err = "nil"
        /\ limiterCalls[n] = 0
\* C5: two nodes in WaitToRun for the same scope and periodic check: exactly
\* one is told to run, so the check is executed at most once within the
\* interval.  Stated on the second node's return: once a node has run the
\* check and recorded lastCheck.EndTime, a node that comes back from
\* WaitToRun (nil error) while now < lastCheck.EndTime + Interval is told not
\* to run.
C5_ExactlyOneRuns ==
    PeriodicPlan =>
        \A a \in Nodes : \A b \in Nodes \ {a} :
            ( /\ pc[a] = "done" /\ ret[a].shouldRun
              /\ pc[b] = "returned" /\ ret[b].err = "nil"
              /\ now < lastCheck.EndTime + plan.Interval )
            => ~ret[b].shouldRun

\* C6: re-test after acquisition.  A periodic WaitToRun call that acquired the
\* lock re-evaluates the interval gate on the current LastCheck before it
\* returns, so it never returns (lock, shouldRun=true) in a state where
\* now < lastCheck.EndTime + Interval.
C6_RetestAfterAcquire ==
    [][\A n \in Nodes :
          (PeriodicPlan /\ ret'[n] # ret[n] /\ ret'[n].shouldRun)
          => ~(now' < lastCheck'.EndTime + plan.Interval)]_vars

\* C7: lock holding discipline.  During a periodic or manual WaitToRun call
\* the node holds no lock; when the call has returned the node holds the
\* resource-checking lock if and only if it returned shouldRun=true with a
\* nil error and the real lock; every skip, error or cancellation return
\* leaves the node without the lock.
C7_LockDiscipline ==
    \A n \in Nodes : IsPeriodic(plan) =>
        /\ pc[n] \in {"start", "limiter", "lastCheck", "acquire", "sleep"}
              => lockHolder # n
        /\ pc[n] = "returned" =>
              /\ (lockHolder = n) = (ret[n].shouldRun /\ ret[n].err = "nil")
              /\ (lockHolder = n) = (ret[n].lock = "real")

\* C7 witness: a call that found the lock held by the other node was
\* cancelled in its retry sleep and returned the context error without a lock.
C7_Witness ==
    \E n \in Nodes :
        /\ IsPeriodic(plan) /\ pc[n] = "returned"
        /\ ret[n] = Returned("nil", FALSE, "ctx")
        /\ lockHolder \notin {n, NoNode}

\* A plan with SkipInterval and a FromVersion comes back from WaitToRun with a
\* nil error only with shouldRun=true.
AlwaysRuns ==
    \A n \in Nodes :
        (HasReturned(n) /\ ret[n].err = "nil") => ret[n].shouldRun

\* C8 as claimed: a plan with SkipInterval=true and FromVersion != nil always
\* runs, for every value of IsPeriodic.
C8_AlwaysRuns_AnyPlan ==
    (plan.SkipInterval /\ plan.FromVersion # "nil") => AlwaysRuns

\* C8 amended: a periodic plan (IsPeriodic true) with SkipInterval=true and
\* FromVersion != nil always runs: absent errors and cancellation WaitToRun
\* never returns shouldRun=false, whatever LastCheck and the build times are.
C8_AlwaysRuns_Periodic ==
    (ManualPlan /\ plan.FromVersion # "nil") => AlwaysRuns

\* C8 witness: a manual check with a FromVersion was told to run although the
\* last check succeeded and started after the build was created.
C8_Witness ==
    \E n \in Nodes :
        /\ ManualPlan /\ plan.FromVersion # "nil"
        /\ pc[n] = "returned" /\ ret[n] = Returned("real", TRUE, "nil")
        /\ lastCheck.Succeeded /\ build.CreateTime < lastCheck.StartTime

C10_NeverExit ==
    /\ [](\A n \in Nodes : (~plan.SkipInterval /\ plan.Never /\ pc[n] # "start") =>
            /\ pc[n] = "returned"
            /\ ret[n] = Returned("nil", FALSE, "nil")
            /\ limiterCalls[n] = 0 /\ lastCheckCalls[n] = 0 /\ acquireCalls[n] = 0
            /\ lockHolder # n)
    /\ [][\A n \in Nodes : plan.SkipInterval =>
            LET flipped == [plan EXCEPT !.Never = ~@]
            IN /\ Enter(n, plan) <=> Enter(n, flipped)
               /\ ReadLastCheck(n, plan) <=> ReadLastCheck(n, flipped)]_vars

\* C10 witness: a check with SkipInterval false and Never true has returned.
C10_Witness ==
    \E n \in Nodes :
        /\ ~plan.SkipInterval /\ plan.Never
        /\ pc[n] = "returned" /\ ret[n] = Returned("nil", FALSE, "nil")
\* ========================================================== step builder
\* stepBuilder.BuildStep / CheckStep / buildStep and the build*Step methods.
\* buildStep is recursive over the plan tree; the model follows one path of
\* the recursion from the root to a node, building each node on the way.

MaxVariants == 2     \* variant fields populated in the root plan node at most
MaxChildren == 2     \* children of a list variant (Do, InParallel, Aggregate, Retry) at most
MaxDepth == 4        \* nesting depth followed into the plan

supportedSchema == "exec.v2"

\* The variant fields of atc.Plan.
Leaves ==
    {"Get", "Put", "Task", "Check", "SetPipeline", "LoadVar",
     "ArtifactInput", "ArtifactOutput"}
ListCombinators == {"Do", "InParallel", "Aggregate", "Retry"}
HookCombinators == {"OnSuccess", "OnFailure", "OnAbort", "OnError", "Ensure"}
WrapCombinators == {"Timeout", "Try"}
Variants ==
    Leaves \cup ListCombinators \cup HookCombinators \cup WrapCombinators \cup {"Across"}

\* The order in which buildStep tests the variant fields.
DispatchOrder_NoPut ==
    <<"Aggregate", "InParallel", "Across", "Do", "Timeout", "Try", "OnAbort",
      "OnError", "OnSuccess", "OnFailure", "Ensure", "Task", "SetPipeline",
      "LoadVar", "Get", "Retry", "ArtifactInput", "ArtifactOutput">>

DispatchOrder ==
    <<"Aggregate", "InParallel", "Across", "Do", "Timeout", "Try", "OnAbort",
      "OnError", "OnSuccess", "OnFailure", "Ensure", "Task", "SetPipeline",
      "LoadVar", "Get", "Put", "Retry", "ArtifactInput", "ArtifactOutput">>

\* buildStep: the build method of the first populated variant in that order,
\* "Identity" (return exec.IdentityStep{}) when none of them is populated.
buildStep(node) ==
    LET hits == {i \in 1..Len(DispatchOrder) : DispatchOrder[i] \in node}
    IN IF hits = {} THEN "Identity"
       ELSE DispatchOrder[CHOOSE i \in hits : \A j \in hits : i <= j]

\* The kind of exec.Step the build method b returns for a node whose list
\* variant has n children.  buildDoStep returns the OnSuccess chain, which is
\* the identity step for an empty Do.
StepKind(b, n) ==
    IF b = "Do" THEN (IF n = 0 THEN "Identity" ELSE "OnSuccess") ELSE b

\* The build methods that call the StepFactory.
FactoryBuilt == Leaves \ {"Check"}

\* Number of children the build method b recurses into.  buildAcrossStep does
\* not call buildStep.
ChildCount(b, n) ==
    IF b \in ListCombinators THEN n
    ELSE IF b \in HookCombinators THEN 2
    ELSE IF b \in WrapCombinators THEN 1
    ELSE 0

\* A []int slice: its elements as the reader sees them while the node is
\* built, the capacity of its backing array, and the elements the same slice
\* header reads once the compilation is over.
NilSlice == [elems |-> <<>>, cap |-> 0, after |-> <<>>]

\* Capacity of the array append allocates for a slice of capacity c that is full.
GrowCap(c) == IF c = 0 THEN 1 ELSE 2 * c

\* innerPlan.Attempts = append(plan.Attempts, index+1), for the i-th of the n
\* plans of a Retry.  A full slice is copied to a new array; a slice with
\* spare capacity is extended in place, so the n iterations write the same
\* element of one array and the last one's value stays.
appendAttempt_Copy(s, i, n) ==
    [elems |-> Append(s.elems, i),
     cap   |-> IF Len(s.elems) < s.cap THEN s.cap ELSE GrowCap(s.cap),
     after |-> Append(s.elems, i)]

appendAttempt(s, i, n) ==
    IF Len(s.elems) < s.cap
      THEN [elems |-> Append(s.elems, i), cap |-> s.cap,
            after |-> Append(s.after, n)]
      ELSE [elems |-> Append(s.elems, i), cap |-> GrowCap(s.cap),
            after |-> Append(s.elems, i)]

\* The Attempts a build method b hands to its i-th child of n.
ChildAttempts_RetryUnchanged(b, s, i, n) ==
    s

ChildAttempts(b, s, i, n) ==
    IF b = "Retry" THEN appendAttempt(s, i, n) ELSE s

\* The schema test of BuildStep and CheckStep.
SchemaSupported_Any(schema) ==
    TRUE

SchemaSupported(schema) ==
    schema = supportedSchema

\* The calls of the two entry points: the build or check argument may be nil.
Entries ==
    [fn : {"BuildStep", "CheckStep"}, isNil : BOOLEAN,
     schema : {supportedSchema, "exec.v1"}]

\* The root plan nodes: any fields populated, up to MaxVariants of them.
RootNodes == {node \in SUBSET Variants : Cardinality(node) <= MaxVariants}

\* The plan nodes below the root: one variant populated, or none.
ChildNodes == {{v} : v \in Variants} \cup {{}}

BuildCalled ==
    /\ bpc = "entry"
    /\ bentry \in Entries
    /\ bnode \in RootNodes
    /\ blen \in 0..MaxChildren
    /\ (bnode \cap ListCombinators = {}) => blen = 0
    /\ battempts = NilSlice
    /\ bstep = "none" /\ berr = "none" /\ bfactory = 0
    /\ bdepth = 0 /\ bretries = <<>>

\* stepBuilder.BuildStep.
BuildStep ==
    /\ bpc = "entry" /\ bentry.fn = "BuildStep"
    /\ IF bentry.isNil
         THEN bpc' = "rejected" /\ bstep' = "Identity" /\ berr' = "must provide a build"
         ELSE IF ~SchemaSupported(bentry.schema)
           THEN bpc' = "rejected" /\ bstep' = "Identity" /\ berr' = "schema not supported"
           ELSE bpc' = "node" /\ bstep' = bstep /\ berr' = "nil"
    /\ UNCHANGED <<buildRest, bentry, bnode, blen, battempts, bfactory, bdepth, bretries>>

\* stepBuilder.CheckStep, with buildCheckStep.
CheckStep ==
    /\ bpc = "entry" /\ bentry.fn = "CheckStep"
    /\ IF bentry.isNil
         THEN bpc' = "rejected" /\ bstep' = "Identity" /\ berr' = "must provide a check"
                /\ bfactory' = bfactory
         ELSE IF ~SchemaSupported(bentry.schema)
           THEN bpc' = "rejected" /\ bstep' = "Identity" /\ berr' = "schema not supported"
                  /\ bfactory' = bfactory
           ELSE bpc' = "built" /\ bstep' = "Check" /\ berr' = "nil"
                  /\ bfactory' = bfactory + 1
    /\ UNCHANGED <<buildRest, bentry, bnode, blen, battempts, bdepth, bretries>>

\* buildStep on the current node: dispatch, and the factory call of a leaf.
BuildNode ==
    /\ bpc = "node"
    /\ LET b == buildStep(bnode)
       IN /\ bstep' = StepKind(b, blen)
          /\ bfactory' = IF b \in FactoryBuilt THEN bfactory + 1 ELSE bfactory
    /\ bpc' = "built"
    /\ UNCHANGED <<buildRest, bentry, bnode, blen, battempts, berr, bdepth, bretries>>

\* The build method of the current node recurses into its i-th child.
Descend ==
    /\ bpc = "built" /\ bentry.fn = "BuildStep"
    /\ bdepth < MaxDepth
    /\ LET b == buildStep(bnode)
       IN \E i \in 1..ChildCount(b, blen) : \E child \in ChildNodes :
             \E n \in 0..MaxChildren :
            /\ (child \cap ListCombinators = {}) => n = 0
            /\ bnode' = child
            /\ blen' = n
            /\ battempts' = ChildAttempts(b, battempts, i, blen)
            /\ bretries' = IF b = "Retry"
                             THEN Append(bretries, [attempt |-> i, of |-> blen])
                             ELSE bretries
    /\ bdepth' = bdepth + 1
    /\ bpc' = "node"
    /\ bstep' = "none"
    /\ UNCHANGED <<buildRest, bentry, berr, bfactory>>

BuildNext ==
    \/ BuildStep
    \/ CheckStep
    \/ BuildNode
    \/ Descend

\* The step builder alone.
BuildInit == BuildCalled /\ WaitIdle /\ DoIdle /\ AcrossIdle /\ ImageIdle /\ PointIdle /\ GetIdle

SpecBuild == BuildInit /\ [][BuildNext]_<<vars, others>>
\* ------------------------------------------------- claims, step builder
\* buildStep has returned for the root plan node of a build.
RootBuilt == bpc = "built" /\ bentry.fn = "BuildStep" /\ bdepth = 0

\* buildStep has returned for a plan node with at most one variant populated.
NodeBuilt == bpc = "built" /\ bentry.fn = "BuildStep" /\ Cardinality(bnode) <= 1

\* C11: malformed plan rejection.  When the plan node has more than one
\* variant populated, BuildStep fails with "malformed plan" and builds no step
\* for any of the variants.
C11_MalformedRejected ==
    (RootBuilt /\ Cardinality(bnode) > 1) =>
        (berr = "malformed plan" /\ bstep = "Identity" /\ bfactory = 0)

\* C12 as claimed: for every plan node with exactly one variant populated,
\* buildStep returns the step of that kind (for Do, its compiled form, the
\* OnSuccess chain), and it returns the identity step only for a node with no
\* variant populated.
C12_DispatchTotal_AllVariants ==
    NodeBuilt =>
        /\ \A v \in Variants : bnode = {v} =>
              bstep = (IF v = "Do" THEN "OnSuccess" ELSE v)
        /\ bstep = "Identity" => bnode = {}

\* C12 amended: for every plan node with exactly one variant populated other
\* than Check, buildStep returns the step of that kind, where the step of a Do
\* is the OnSuccess chain of its children, which is the identity step when the
\* Do is empty; a leaf other than Check is built by one StepFactory call.  The
\* identity step is returned only for a node with no variant populated, a node
\* with only Check populated, and an empty Do.
C12_DispatchTotal ==
    /\ [](NodeBuilt =>
            /\ \A v \in Variants \ {"Check", "Do"} : bnode = {v} => bstep = v
            /\ bnode = {"Do"} => bstep = (IF blen = 0 THEN "Identity" ELSE "OnSuccess")
            /\ bnode = {"Check"} => bstep = "Identity"
            /\ bstep = "Identity" =>
                  (bnode = {} \/ bnode = {"Check"} \/ (bnode = {"Do"} /\ blen = 0)))
    /\ [][(bpc = "node" /\ bpc' = "built" /\ Cardinality(bnode) <= 1) =>
             bfactory' = bfactory +
                 (IF bnode \subseteq (Leaves \ {"Check"}) /\ bnode # {} THEN 1 ELSE 0)]_builderVars

\* C12 witness: a node with only Retry populated, the variant buildStep tests
\* after all the other combinators, was built as a Retry step.
C12_Witness ==
    NodeBuilt /\ bnode = {"Retry"} /\ bstep = "Retry"

\* C13: schema gate.  BuildStep and CheckStep go on to compile exactly when
\* the build / check is not nil and its schema is "exec.v2"; otherwise they
\* return the identity step with an error and without a StepFactory call:
\* "must provide a build" / "must provide a check" for nil, whatever the
\* schema, and "schema not supported" for a schema other than "exec.v2".
C13_SchemaGate ==
    bpc \notin {"idle", "entry"} =>
        IF bentry.isNil
          THEN /\ bpc = "rejected" /\ bstep = "Identity" /\ bfactory = 0
               /\ berr = (IF bentry.fn = "BuildStep" THEN "must provide a build"
                                                     ELSE "must provide a check")
          ELSE IF bentry.schema # "exec.v2"
            THEN /\ bpc = "rejected" /\ bstep = "Identity" /\ bfactory = 0
                 /\ berr = "schema not supported"
            ELSE bpc # "rejected" /\ berr = "nil"

\* C13 witness: a build with another schema was rejected.
C13_Witness ==
    /\ bpc = "rejected" /\ bentry.fn = "BuildStep" /\ ~bentry.isNil
    /\ bentry.schema = "exec.v1" /\ berr = "schema not supported"

\* The attempt taken at each enclosing Retry, outermost first.
EnclosingAttempts == [j \in 1..Len(bretries) |-> bretries[j].attempt]

\* C15: Attempts propagation.  After compilation the Attempts of a node
\* enclosed by k Retry plans is the list of the k attempts taken, outermost
\* first (the i-th attempt of a Retry with Attempts P carries P ++ [i]), and
\* every other combinator hands its Attempts unchanged to its children.
C15_AttemptsPropagation ==
    /\ [](bpc \in {"node", "built"} /\ bentry.fn = "BuildStep" =>
            battempts.after = EnclosingAttempts)
    /\ [][(bpc = "built" /\ bpc' = "node" /\ buildStep(bnode) # "Retry") =>
             battempts' = battempts]_builderVars
\* ------------------------------------------------------------- Do steps
MaxDo == 3           \* children of the Do plan

\* How a child step ends: Succeeded true, Succeeded false, or a run error.
Outcomes == {"succeeded", "failed", "errored"}

RECURSIVE SeqsUpTo(_, _)
SeqsUpTo(S, n) ==
    IF n = 0 THEN {<<>>}
    ELSE LET shorter == SeqsUpTo(S, n - 1)
         IN shorter \cup {Append(q, x) : q \in {r \in shorter : Len(r) = n - 1}, x \in S}

\* exec.IdentityStep{} and exec.OnSuccess(step, next); the step of the i-th
\* child plan is written i.
IdentityStep == <<>>
OnSuccess(step, next) == <<"OnSuccess", step, next>>

\* The loop of buildDoStep, about to handle child i with the chain built so far.
RECURSIVE doLoop(_, _)
doLoop(i, step) ==
    IF i < 1 THEN step ELSE doLoop(i - 1, OnSuccess(i, step))

\* A buildDoStep that takes the children first to last.
RECURSIVE doLoopForward(_, _, _)
doLoopForward(i, n, step) ==
    IF i > n THEN step ELSE doLoopForward(i + 1, n, OnSuccess(i, step))

buildDoStep_Forward(n) == doLoopForward(1, n, IdentityStep)

\* stepBuilder.buildDoStep for a Do plan of n children.
buildDoStep(n) == doLoop(n, IdentityStep)

DoCalled ==
    /\ dpc = "plan"
    /\ dout \in SeqsUpTo(Outcomes, MaxDo)
    /\ dtree = <<>> /\ dlog = <<>> /\ dres = "none"

\* buildDoStep compiles the plan.
DoCompile ==
    /\ dpc = "plan"
    /\ dtree' = buildDoStep(Len(dout))
    /\ dpc' = "run"
    /\ UNCHANGED <<doRest, dout, dlog, dres>>

\* OnSuccess(step, next).Run: runs step; goes on with next when step
\* succeeded, and otherwise returns step's failure or error without next.
RunOnSuccess ==
    /\ dpc = "run" /\ dtree # IdentityStep
    /\ LET step == dtree[2]
       IN /\ dlog' = Append(dlog, step)
          /\ IF dout[step] = "succeeded"
               THEN dtree' = dtree[3] /\ dpc' = dpc /\ dres' = dres
               ELSE dtree' = dtree /\ dpc' = "done" /\ dres' = dout[step]
    /\ UNCHANGED <<doRest, dout>>

\* IdentityStep.Run: does nothing and succeeds.
RunIdentity ==
    /\ dpc = "run" /\ dtree = IdentityStep
    /\ dpc' = "done" /\ dres' = "succeeded"
    /\ UNCHANGED <<doRest, dout, dtree, dlog>>

DoNext ==
    \/ DoCompile
    \/ RunOnSuccess
    \/ RunIdentity

DoInit == DoCalled /\ WaitIdle /\ BuildIdle /\ AcrossIdle /\ ImageIdle /\ PointIdle /\ GetIdle

SpecDo == DoInit /\ [][DoNext]_<<vars, others>>

\* --------------------------------------------------------- claims, Do
\* Index of the first child that does not succeed, or one past the last child.
RECURSIVE FirstNonSuccess(_, _)
FirstNonSuccess(outs, i) ==
    IF i > Len(outs) \/ outs[i] # "succeeded" THEN i ELSE FirstNonSuccess(outs, i + 1)

\* Sequential Do: the children that run, in order.
DoRuns(outs) ==
    LET k == FirstNonSuccess(outs, 1)
    IN [j \in 1..(IF k > Len(outs) THEN Len(outs) ELSE k) |-> j]

\* Sequential Do: the result, that of the last child run; success when empty.
DoResult(outs) ==
    LET runs == DoRuns(outs)
    IN IF runs = <<>> THEN "succeeded" ELSE outs[runs[Len(runs)]]

\* C14: Do semantics via compilation.  Running the step buildDoStep compiles
\* runs the children in plan order, each one only after the one before it
\* returned success, skips the rest after the first failed or errored child,
\* and ends with the result of the last child run; an empty Do runs nothing and
\* succeeds.
C14_DoSemantics ==
    /\ dpc \in {"run", "done"} =>
          /\ \A j \in 1..Len(dlog) :
                /\ dlog[j] = j
                /\ j > 1 => dout[j - 1] = "succeeded"
    /\ dpc = "done" =>
          /\ dlog = DoRuns(dout)
          /\ dres = DoResult(dout)
          /\ dout = <<>> => (dlog = <<>> /\ dres = "succeeded")

\* C14 witness: a Do of three children stopped at its failed second child.
C14_Witness ==
    /\ dpc = "done" /\ Len(dout) = 3
    /\ dout[1] = "succeeded" /\ dout[2] = "failed"
    /\ dlog = <<1, 2>> /\ dres = "failed"
\* --------------------------------------------------------- Across plans
MaxVars == 2         \* vars of the Across plan
MaxValues == 2       \* values of one var
MaxLimit == 2        \* largest MaxInFlight limit

\* The values 1..n of a var, in order.
ValueLists == {[j \in 1..n |-> j] : n \in 0..MaxValues}

\* atc.AcrossVar; the name of the i-th var is written i.
AcrossVarsOf(k) ==
    {vs \in [1..k -> [Var : 1..k, Values : ValueLists, MaxInFlight : 1..MaxLimit]] :
        \A i \in 1..k : vs[i].Var = i}

\* The points of the product of the vars' values from var i on, the last var
\* varying fastest.
RECURSIVE Points(_, _)
Points(vs, i) ==
    IF i > Len(vs) THEN << <<>> >>
    ELSE LET rest == Points(vs, i + 1)
             n == Len(vs[i].Values)
             m == Len(rest)
         IN [j \in 1..(n * m) |->
                <<vs[i].Values[((j - 1) \div m) + 1]>> \o rest[((j - 1) % m) + 1]]

\* plan.Steps of an expanded Across plan: one atc.VarScopedPlan per point.
ExpandedSteps(vs) ==
    LET points == Points(vs, 1)
    IN [j \in 1..Len(points) |-> [Step |-> j, Values |-> points[j]]]

AcrossPlans ==
    {[Vars |-> vs, Steps |-> ExpandedSteps(vs), FailFast |-> ff] :
        vs \in UNION {AcrossVarsOf(k) : k \in 1..MaxVars}, ff \in BOOLEAN}

\* A Go slice expression with its upper bound taken inclusively.
SubSlice_Inclusive(steps, startIndex, endIndex) ==
    IF endIndex + 1 > Len(steps)
      THEN [ok |-> FALSE, steps |-> <<>>]
      ELSE [ok |-> TRUE,
            steps |-> [j \in 1..(endIndex + 1 - startIndex) |-> steps[startIndex + j]]]

\* plan.Steps[startIndex:endIndex], which panics when out of range.
SubSlice(steps, startIndex, endIndex) ==
    IF startIndex > endIndex \/ endIndex > Len(steps)
      THEN [ok |-> FALSE, steps |-> <<>>]
      ELSE [ok |-> TRUE,
            steps |-> [j \in 1..(endIndex - startIndex) |-> steps[startIndex + j]]]

RECURSIVE valuesProduct(_, _)
valuesProduct(vs, i) ==
    IF i > Len(vs) THEN 1 ELSE Len(vs[i].Values) * valuesProduct(vs, i + 1)

\* A stepsPerValue that counts the values of the var at varIndex as well.
stepsPerValue_Inclusive(across, varIndex) == valuesProduct(across.Vars, varIndex)

\* stepsPerValue: the product of len(v.Values) over plan.Vars[varIndex+1:].
stepsPerValue(across, varIndex) == valuesProduct(across.Vars, varIndex + 1)

\* exec.InParallel(steps, limit, failFast).
InParallel(steps, limit, failFast) ==
    [kind |-> "InParallel", steps |-> steps, limit |-> limit, failFast |-> failFast]

\* A runtime panic of the compilation.
Panic == [kind |-> "Panic"]

\* The substep built for one of plan.Steps: buildVars.NewLocalScope() with
\* AddLocalVar(v.Var, step.Values[i], false) for each of plan.Vars; indexing
\* step.Values past its end panics.
ScopedStep(across, step) ==
    IF Len(step.Values) < Len(across.Vars) THEN Panic
    ELSE [kind |-> "Leaf", step |-> step.Step,
          scope |-> [parent |-> "buildVars",
                     locals |-> [i \in 1..Len(across.Vars) |-> step.Values[i]]]]

Panicked(steps) == \E j \in 1..Len(steps) : steps[j].kind = "Panic"

\* stepBuilder.buildAcrossInParallelStep; varIndex counts from 1.
RECURSIVE buildAcrossInParallelStep(_, _)
buildAcrossInParallelStep(varIndex, across) ==
    IF varIndex = Len(across.Vars)
      THEN LET steps == [j \in 1..Len(across.Steps) |-> ScopedStep(across, across.Steps[j])]
           IN IF Panicked(steps) THEN Panic
              ELSE InParallel(steps, across.Vars[varIndex].MaxInFlight, across.FailFast)
      ELSE LET spv == stepsPerValue(across, varIndex)
               numValues == Len(across.Vars[varIndex].Values)
               substeps ==
                   [i \in 1..numValues |->
                       LET slice == SubSlice(across.Steps, (i - 1) * spv, i * spv)
                       IN IF slice.ok
                            THEN buildAcrossInParallelStep(varIndex + 1,
                                     [across EXCEPT !.Steps = slice.steps])
                            ELSE Panic]
           IN IF Panicked(substeps) THEN Panic
              ELSE InParallel(substeps, across.Vars[varIndex].MaxInFlight, across.FailFast)

\* Whether a step succeeds when run: a substep as afail says, an InParallel
\* step when all of its steps do.
RECURSIVE Succeeds(_, _)
Succeeds(step, fail) ==
    IF step.kind = "Leaf" THEN ~fail
    ELSE \A j \in 1..Len(step.steps) : Succeeds(step.steps[j], fail)

AcrossCalled ==
    /\ apc = "plan"
    /\ aplan \in AcrossPlans
    /\ afail \in BOOLEAN
    /\ atree = "none" /\ ares = "none"

\* The Across plan is compiled from its first var.
AcrossCompile ==
    /\ apc = "plan"
    /\ LET step == buildAcrossInParallelStep(1, aplan)
       IN /\ atree' = step
          /\ apc' = IF step.kind = "Panic" THEN "panicked" ELSE "built"
    /\ UNCHANGED <<acrossRest, aplan, afail, ares>>

\* The compiled step is run.
AcrossRun ==
    /\ apc = "built"
    /\ ares' = IF Succeeds(atree, afail) THEN "succeeded" ELSE "failed"
    /\ apc' = "done"
    /\ UNCHANGED <<acrossRest, aplan, afail, atree>>

AcrossNext ==
    \/ AcrossCompile
    \/ AcrossRun

AcrossInit == AcrossCalled /\ WaitIdle /\ BuildIdle /\ DoIdle /\ ImageIdle /\ PointIdle /\ GetIdle

SpecAcross == AcrossInit /\ [][AcrossNext]_<<vars, others>>
\* ------------------------------------------------------ claims, Across
\* The substeps of a compiled step, left to right.
RECURSIVE Substeps(_)
RECURSIVE SubstepsFrom(_, _)
SubstepsFrom(steps, j) ==
    IF j > Len(steps) THEN <<>> ELSE Substeps(steps[j]) \o SubstepsFrom(steps, j + 1)

Substeps(step) ==
    IF step.kind = "Leaf" THEN <<step.step>> ELSE SubstepsFrom(step.steps, 1)

\* The shells from a level down: limit and FailFast of every shell, number of
\* children above the innermost level, scoped substeps at the innermost level.
RECURSIVE ShellsOK(_, _)
ShellsOK(step, level) ==
    /\ step.kind = "InParallel"
    /\ step.limit = aplan.Vars[level].MaxInFlight
    /\ step.failFast = aplan.FailFast
    /\ IF level < Len(aplan.Vars)
         THEN /\ Len(step.steps) = Len(aplan.Vars[level].Values)
              /\ \A j \in 1..Len(step.steps) : ShellsOK(step.steps[j], level + 1)
         ELSE \A j \in 1..Len(step.steps) :
                 /\ step.steps[j].kind = "Leaf"
                 /\ step.steps[j].scope.parent = "buildVars"
                 /\ step.steps[j].scope.locals =
                        [i \in 1..Len(aplan.Vars) |->
                            aplan.Steps[step.steps[j].step].Values[i]]

\* C16: Across expansion shape.  For an Across plan of k >= 1 vars whose
\* Steps are the product of the vars' values, compilation returns k nested
\* levels of InParallel shells: a shell of level i has the limit
\* Vars[i].MaxInFlight and the plan's FailFast, and above the innermost level
\* one child per value of Vars[i]; the innermost shells hold contiguous slices
\* of Steps in order, every substep in exactly one of them, and each substep is
\* built in a new local scope binding every Vars[j].Var to its Values[j].
C16_AcrossShape ==
    (apc \in {"built", "panicked", "done"}
       /\ Len(aplan.Steps) = valuesProduct(aplan.Vars, 1)) =>
        /\ apc # "panicked"
        /\ ShellsOK(atree, 1)
        /\ Substeps(atree) = [j \in 1..Len(aplan.Steps) |-> j]

\* C16 witness: a compiled plan of two vars with two values each and
\* different limits.
C16_Witness ==
    /\ apc = "built" /\ Len(aplan.Vars) = 2
    /\ Len(aplan.Vars[1].Values) = 2 /\ Len(aplan.Vars[2].Values) = 2
    /\ aplan.Vars[1].MaxInFlight = 1 /\ aplan.Vars[2].MaxInFlight = 2
    /\ Substeps(atree.steps[2]) = <<3, 4>>

\* Some var of the plan has no values.
EmptyVar == \E i \in 1..Len(aplan.Vars) : aplan.Vars[i].Values = <<>>

\* C17: Across with an empty value list.  When some var has no values, so
\* that Steps is empty, compilation ends without an out-of-range slice or
\* index, the step it returns holds no substep, and running it succeeds.
C17_AcrossEmpty ==
    (apc \in {"built", "panicked", "done"} /\ EmptyVar) =>
        /\ aplan.Steps = <<>>
        /\ apc # "panicked"
        /\ Substeps(atree) = <<>>
        /\ apc = "done" => ares = "succeeded"

\* C17 witness: the first var has two values and the second none; the two
\* empty inner shells have run.
C17_Witness ==
    /\ apc = "done" /\ Len(aplan.Vars) = 2 /\ afail
    /\ Len(aplan.Vars[1].Values) = 2 /\ aplan.Vars[2].Values = <<>>
    /\ Len(atree.steps) = 2 /\ ares = "succeeded"
\* -------------------------------------------------------- image fetcher
\* Strings that are built or compared piecewise are sequences of their parts.
EmptyString == <<>>

RawRootFSScheme == "raw"
ImageMetadataFile == "metadata.json"

\* worker.Name() of the worker that gets the container, and the other worker.
Workers == {"w1", "w2"}
thisWorker == "w1"

\* worker.dbWorker.ResourceTypes().
WorkerResourceTypes ==
    {[Type |-> "registry-image", Image |-> <<"resources", "registry-image">>,
      Version |-> "v1", Privileged |-> TRUE]}

\* Value of an image URL given in the plan.
PlanImageURL == <<"docker", ":", "//", "/", "busybox">>

\* runtime.ImageSpec.
ImageSpecs ==
    [ImageArtifact : {"nil", "artifact"},
     ResourceType : {"", "registry-image", "mystery"},
     ImageURL : {EmptyString, PlanImageURL},
     Privileged : BOOLEAN]

\* Paths the volume backend gives to a new COW volume, as path segments.
VolumePaths == {<<"volumes", "live", "cow1">>, <<"cow2">>}

\* Results of findVolumeForArtifact: (volume, ok, err).
Lookups ==
    {[done |-> TRUE, err |-> TRUE, ok |-> FALSE, worker |-> "none"],
     [done |-> TRUE, err |-> FALSE, ok |-> FALSE, worker |-> "none"]}
    \cup {[done |-> TRUE, err |-> FALSE, ok |-> TRUE, worker |-> w] : w \in Workers}

NoLookup == [done |-> FALSE, err |-> FALSE, ok |-> FALSE, worker |-> "none"]

\* FetchedImage{}.
EmptyFetched ==
    [Metadata |-> "none", Version |-> "none", URL |-> EmptyString, Privileged |-> FALSE]

NoFetch == [returned |-> FALSE, fetched |-> EmptyFetched, err |-> "nil"]

\* A condition that sends an artifact found anywhere down the same-worker path.
OnSameWorker_FoundOnly(lookup) == lookup.ok

\* ok && volume.DBVolume().WorkerName() == worker.Name().
OnSameWorker(lookup) == lookup.ok /\ lookup.worker = thisWorker

\* An error check that lets a failed stream through.
streamFailed_Ignored(ok) == FALSE

\* err != nil after streamer.Stream.
streamFailed(ok) == ~ok

\* path.Join of a clean absolute path and one element.
pathJoin(p, elem) == IF elem = "" THEN p ELSE Append(p, elem)

\* The absolute path p written out: a slash before each segment.
RECURSIVE pathString(_, _)
pathString(p, i) ==
    IF i > Len(p) THEN <<>> ELSE <<"/", p[i]>> \o pathString(p, i + 1)

\* url.URL{Scheme: scheme, Path: p}.String() for a non-empty absolute path:
\* the scheme, ":", "//" with an empty host, and the path.
urlString(scheme, p) == <<scheme, ":", "//">> \o pathString(p, 1)

\* The path of the COW volume the call created.
cowPath == ivols[Len(ivols)].path

FetchCalled ==
    /\ ipc = "call"
    /\ ispec \in ImageSpecs
    /\ ilookup = NoLookup
    /\ ivols = <<>> /\ iops = <<>>
    /\ iret = NoFetch

\* return fetched, err
Fetched(fetched, err) ==
    /\ ipc' = "returned"
    /\ iret' = [returned |-> TRUE, fetched |-> fetched, err |-> err]

\* A call that does not create a volume: on success the function goes on at
\* next, on failure it returns FetchedImage{} and the error.
Call(op, ok, next, err) ==
    /\ iops' = Append(iops, [op |-> op, ok |-> ok])
    /\ IF ok THEN ipc' = next /\ iret' = iret ELSE Fetched(EmptyFetched, err)

\* A call that creates the volume vol when it succeeds.
Create(op, ok, vol, next, err) ==
    /\ Call(op, ok, next, err)
    /\ ivols' = IF ok THEN Append(ivols, vol) ELSE ivols

\* fetchImageForContainer, up to the call or the return of its first branch.
FetchImage ==
    /\ ipc = "call"
    /\ IF ispec.ImageArtifact # "nil"
         THEN ipc' = "find" /\ iret' = iret
         ELSE IF ispec.ResourceType # ""
           THEN IF \E t \in WorkerResourceTypes : t.Type = ispec.ResourceType
                  THEN ipc' = "base.import" /\ iret' = iret
                  ELSE Fetched(EmptyFetched, "ErrUnsupportedResourceType")
           ELSE Fetched([EmptyFetched EXCEPT !.URL = ispec.ImageURL], "nil")
    /\ UNCHANGED <<imageRest, ispec, ilookup, ivols, iops>>

\* findVolumeForArtifact returns, and the branch on its result.
FindVolume ==
    /\ ipc = "find"
    /\ \E lookup \in Lookups :
          /\ ilookup' = lookup
          /\ IF lookup.err
               THEN Fetched(EmptyFetched, "find volume")
               ELSE /\ iret' = iret
                    /\ ipc' = IF OnSameWorker(lookup) THEN "same.cow" ELSE "diff.create"
    /\ UNCHANGED <<imageRest, ispec, ivols, iops>>
\* The FetchedImage of an image artifact: metadata, raw URL of the rootfs
\* directory of the COW volume, and the Privileged of the image spec.
ArtifactImage ==
    [Metadata |-> ImageMetadataFile, Version |-> "none",
     URL |-> urlString(RawRootFSScheme, pathJoin(cowPath, "rootfs")),
     Privileged |-> ispec.Privileged]

\* imageProvidedByPreviousStepOnSameWorker: findOrCreateCOWVolumeForContainer
\* on the artifact volume.
SameCOW ==
    /\ ipc = "same.cow"
    /\ \E ok \in BOOLEAN : \E p \in VolumePaths :
          Create("findOrCreateCOWVolumeForContainer", ok,
                 [kind |-> "cow", parent |-> "artifact", path |-> p],
                 "same.streamFile", "create COW volume")
    /\ UNCHANGED <<imageRest, ispec, ilookup>>

\* ... streamer.StreamFile of metadata.json from the artifact volume.
SameStreamFile ==
    /\ ipc = "same.streamFile"
    /\ \E ok \in BOOLEAN : Call("StreamFile", ok, "same.load", "stream metadata")
    /\ UNCHANGED <<imageRest, ispec, ilookup, ivols>>

\* ... loadMetadata and the return.
SameLoadMetadata ==
    /\ ipc = "same.load"
    /\ \E ok \in BOOLEAN :
          /\ iops' = Append(iops, [op |-> "loadMetadata", ok |-> ok])
          /\ IF ok THEN Fetched(ArtifactImage, "nil")
                   ELSE Fetched(EmptyFetched, "load metadata")
    /\ UNCHANGED <<imageRest, ispec, ilookup, ivols>>

\* imageProvidedByPreviousStepOnDifferentWorker: findOrCreateVolumeForStreaming.
DiffCreateVolume ==
    /\ ipc = "diff.create"
    /\ \E ok \in BOOLEAN :
          Create("findOrCreateVolumeForStreaming", ok,
                 [kind |-> "streamed", parent |-> "none", path |-> <<"streamed">>],
                 "diff.stream", "create volume")
    /\ UNCHANGED <<imageRest, ispec, ilookup>>

\* ... streamer.Stream of the artifact into the streamed volume.
DiffStream ==
    /\ ipc = "diff.stream"
    /\ \E ok \in BOOLEAN :
          /\ iops' = Append(iops, [op |-> "Stream", ok |-> ok])
          /\ IF streamFailed(ok) THEN Fetched(EmptyFetched, "stream")
                                 ELSE ipc' = "diff.cow" /\ iret' = iret
    /\ UNCHANGED <<imageRest, ispec, ilookup, ivols>>

\* ... findOrCreateCOWVolumeForContainer on the streamed volume.
DiffCOW ==
    /\ ipc = "diff.cow"
    /\ \E ok \in BOOLEAN : \E p \in VolumePaths :
          Create("findOrCreateCOWVolumeForContainer", ok,
                 [kind |-> "cow", parent |-> "streamed", path |-> p],
                 "diff.streamFile", "create COW volume for image")
    /\ UNCHANGED <<imageRest, ispec, ilookup>>

\* ... streamer.StreamFile of metadata.json from the artifact.
DiffStreamFile ==
    /\ ipc = "diff.streamFile"
    /\ \E ok \in BOOLEAN : Call("StreamFile", ok, "diff.load", "stream metadata file")
    /\ UNCHANGED <<imageRest, ispec, ilookup, ivols>>

\* ... loadMetadata and the return.
DiffLoadMetadata ==
    /\ ipc = "diff.load"
    /\ \E ok \in BOOLEAN :
          /\ iops' = Append(iops, [op |-> "loadMetadata", ok |-> ok])
          /\ IF ok THEN Fetched(ArtifactImage, "nil")
                   ELSE Fetched(EmptyFetched, "MalformedMetadataError")
    /\ UNCHANGED <<imageRest, ispec, ilookup, ivols>>

\* imageFromBaseResourceType: findOrCreateVolumeForBaseResourceType.
BaseImport ==
    /\ ipc = "base.import"
    /\ \E ok \in BOOLEAN :
          Create("findOrCreateVolumeForBaseResourceType", ok,
                 [kind |-> "import", parent |-> "none", path |-> <<"import">>],
                 "base.cow", "import volume")
    /\ UNCHANGED <<imageRest, ispec, ilookup>>

\* ... findOrCreateCOWVolumeForContainer on the import volume, and the return.
BaseCOW ==
    /\ ipc = "base.cow"
    /\ \E ok \in BOOLEAN : \E p \in VolumePaths :
       \E t \in {rt \in WorkerResourceTypes : rt.Type = ispec.ResourceType} :
          /\ iops' = Append(iops, [op |-> "findOrCreateCOWVolumeForContainer", ok |-> ok])
          /\ ivols' = IF ok THEN Append(ivols, [kind |-> "cow", parent |-> "import", path |-> p])
                            ELSE ivols
          /\ IF ok
               THEN Fetched([Metadata |-> "none", Version |-> t.Version,
                             URL |-> urlString(RawRootFSScheme, p),
                             Privileged |-> t.Privileged], "nil")
               ELSE Fetched(EmptyFetched, "create COW volume for resource type")
    /\ UNCHANGED <<imageRest, ispec, ilookup>>

ImageNext ==
    \/ FetchImage
    \/ FindVolume
    \/ SameCOW
    \/ SameStreamFile
    \/ SameLoadMetadata
    \/ DiffCreateVolume
    \/ DiffStream
    \/ DiffCOW
    \/ DiffStreamFile
    \/ DiffLoadMetadata
    \/ BaseImport
    \/ BaseCOW

ImageInit == FetchCalled /\ WaitIdle /\ BuildIdle /\ DoIdle /\ AcrossIdle /\ PointIdle /\ GetIdle

SpecImage == ImageInit /\ [][ImageNext]_<<vars, others>>
\* ----------------------------------------------- claims, image fetcher
\* The names of the calls made so far, in order.
OpNames == [j \in 1..Len(iops) |-> iops[j].op]

\* The artifact's volume was looked up without error.
LookedUp == ispec.ImageArtifact # "nil" /\ ilookup.done /\ ~ilookup.err

\* ... and was found on the worker that gets the container.
VolumeOnTarget == LookedUp /\ ilookup.ok /\ ilookup.worker = thisWorker

\* ... and was not: found on another worker, or not found.
VolumeElsewhere == LookedUp /\ ~(ilookup.ok /\ ilookup.worker = thisWorker)

\* C18: image spec fall-through.  When the image spec has none of
\* ImageArtifact, ResourceType and ImageURL set, or names a ResourceType the
\* worker does not list, fetchImageForContainer returns
\* ErrUnsupportedResourceType with an empty FetchedImage and has created no
\* volume.
C18_FallThrough ==
    (/\ iret.returned
     /\ ispec.ImageArtifact = "nil"
     /\ \/ ispec.ResourceType = "" /\ ispec.ImageURL = EmptyString
        \/ /\ ispec.ResourceType # ""
           /\ \A t \in WorkerResourceTypes : t.Type # ispec.ResourceType) =>
        /\ iret.err = "ErrUnsupportedResourceType"
        /\ iret.fetched = EmptyFetched
        /\ ivols = <<>>

\* C19: same-worker image reuse.  For an image artifact whose volume lookup
\* did not fail, the replication path (destination volume, then
\* streamer.Stream once that volume exists) is taken exactly when the volume
\* is not on the target worker.  When it is on the target worker no
\* destination volume is created, Stream is not called, the only volume
\* created is a COW volume of the artifact volume, and the URL returned is
\* raw://<cowPath>/rootfs.
C19_SameWorkerReuse ==
    /\ \A j \in 1..Len(iops) :
          iops[j].op \in {"Stream", "findOrCreateVolumeForStreaming"} => VolumeElsewhere
    /\ VolumeElsewhere =>
          /\ iops # <<>> => iops[1].op = "findOrCreateVolumeForStreaming"
          /\ (Len(iops) >= 2 \/ (iret.returned /\ iops # <<>> /\ iops[1].ok)) =>
                (Len(iops) >= 2 /\ iops[1].ok /\ iops[2].op = "Stream")
          /\ iret.returned => iops # <<>>
    /\ VolumeOnTarget =>
          /\ \A j \in 1..Len(ivols) :
                ivols[j].kind = "cow" /\ ivols[j].parent = "artifact"
          /\ Len(ivols) <= 1
          /\ iops # <<>> => iops[1].op = "findOrCreateCOWVolumeForContainer"
          /\ (iret.returned /\ iret.err = "nil") =>
                /\ Len(ivols) = 1
                /\ iret.fetched.URL =
                      <<"raw", ":", "//">> \o pathString(ivols[1].path, 1) \o <<"/", "rootfs">>

\* C19 witness: the artifact volume was on the target worker and the image
\* was returned.
C19_Witness ==
    /\ VolumeOnTarget /\ iret.returned /\ iret.err = "nil"
    /\ iret.fetched.URL = <<"raw", ":", "//", "/", "cow2", "/", "rootfs">>

\* The calls of the cross-worker path, in the claimed order.
CrossWorkerOrder ==
    <<"findOrCreateVolumeForStreaming", "Stream", "findOrCreateCOWVolumeForContainer",
      "StreamFile", "loadMetadata">>

AllSucceeded == \A j \in 1..Len(iops) : iops[j].ok

\* C20: cross-worker image fetch order.  For an image artifact that is not on
\* the target worker the calls are made in the order create destination
\* volume, stream, create COW volume of the streamed volume, read
\* metadata.json; a COW volume exists only after Stream succeeded; the call
\* after a failed one is never made, and the failure is returned with an
\* empty FetchedImage; the URL is returned only when all calls succeeded.
C20_CrossWorkerOrder ==
    VolumeElsewhere =>
        /\ Len(iops) <= Len(CrossWorkerOrder)
        /\ \A j \in 1..Len(iops) :
              /\ iops[j].op = CrossWorkerOrder[j]
              /\ j < Len(iops) => iops[j].ok
        /\ \A j \in 1..Len(ivols) :
              ivols[j].kind = "cow" =>
                 /\ ivols[j].parent = "streamed"
                 /\ Len(iops) >= 3 /\ iops[1].ok /\ iops[2].ok
                 /\ j = 2 /\ ivols[1].kind = "streamed"
        /\ ~AllSucceeded =>
              (iret.returned /\ iret.err # "nil" /\ iret.fetched = EmptyFetched)
        /\ iret.returned =>
              IF AllSucceeded /\ Len(iops) = Len(CrossWorkerOrder)
                THEN /\ iret.err = "nil"
                     /\ iret.fetched.URL =
                           urlString("raw", Append(ivols[2].path, "rootfs"))
                ELSE iret.err # "nil" /\ iret.fetched.URL = EmptyString

\* C20 witness: the artifact was found on the other worker and every step
\* succeeded.
C20_Witness ==
    /\ VolumeElsewhere /\ ilookup.ok /\ ilookup.worker = "w2"
    /\ iret.returned /\ iret.err = "nil"
    /\ OpNames = CrossWorkerOrder /\ AllSucceeded
    /\ Len(ivols) = 2
\* ======================================== WaitToRun, errors and termination
\* C27: WaitToRun error paths.  A failed limiter.Wait returns an error with
\* shouldRun false before any LastCheck read or lock attempt; a failed
\* scope.LastCheck returns its error without the lock attempt of that round; a
\* failed AcquireResourceCheckingLock returns an error with shouldRun false,
\* and the call makes no further attempt: after an error return the call reads
\* and attempts nothing more, and it holds no lock.
C27_ErrorPaths ==
    /\ [](\A n \in Nodes : HasReturned(n) =>
            /\ ret[n].err = "rate limit" =>
                  /\ ~ret[n].shouldRun /\ ret[n].lock = "nil"
                  /\ limiterCalls[n] = 1
                  /\ lastCheckCalls[n] = 0 /\ acquireCalls[n] = 0
            /\ ret[n].err = "last check" =>
                  /\ ~ret[n].shouldRun /\ ret[n].lock = "nil"
                  /\ lastCheckCalls[n] = acquireCalls[n] + 1
            /\ ret[n].err = "acquire lock" =>
                  /\ ~ret[n].shouldRun /\ ret[n].lock = "nil"
                  /\ acquireCalls[n] = lastCheckCalls[n]
            /\ ret[n].err # "nil" => (lockHolder # n /\ pc[n] = "returned"))
    /\ [][\A n \in Nodes : (HasReturned(n) /\ ret[n].err # "nil") =>
             /\ pc'[n] = pc[n] /\ ret'[n] = ret[n]
             /\ limiterCalls'[n] = limiterCalls[n]
             /\ lastCheckCalls'[n] = lastCheckCalls[n]
             /\ acquireCalls'[n] = acquireCalls[n]]_vars

\* C27 witness: a call found the lock taken, slept, read LastCheck again and
\* then got an error from its second lock attempt.
C27_Witness ==
    \E n \in Nodes :
        /\ pc[n] = "returned" /\ ret[n] = Returned("nil", FALSE, "acquire lock")
        /\ acquireCalls[n] = 2 /\ lastCheckCalls[n] = 2

\* ---------------------------------------------------------- termination
\* The loop of WaitToRun without the bound on its rounds: the steps of the
\* call with the calls not counted.
LiveRead(n) ==
    /\ DecideOnLastCheck(n, plan)
    /\ UNCHANGED <<limiterCalls, lastCheckCalls, acquireCalls>>

LiveAcquire(n) ==
    /\ TryLock(n)
    /\ UNCHANGED <<limiterCalls, lastCheckCalls, acquireCalls>>

LiveSleep(n) ==
    /\ SelectRetry(n)
    /\ UNCHANGED <<limiterCalls, lastCheckCalls, acquireCalls>>

\* The steps of node n's call, and of the check it runs while holding the lock.
CallStep(n) ==
    \/ Enter(n, plan)
    \/ LimiterWait(n)
    \/ LiveRead(n)
    \/ LiveAcquire(n)
    \/ LiveSleep(n)

HolderStep(n) ==
    \/ CheckStart(n)
    \/ CheckEnd(n)

LiveNext ==
    \/ \E n \in Nodes : Enter(n, plan)
    \/ \E n \in Nodes : LimiterWait(n)
    \/ \E n \in Nodes : LiveRead(n)
    \/ \E n \in Nodes : LiveAcquire(n)
    \/ \E n \in Nodes : LiveSleep(n)
    \/ \E n \in Nodes : CheckStart(n)
    \/ \E n \in Nodes : CheckEnd(n)
    \/ \E n \in Nodes : Cancel(n)
    \/ Tick

\* Periodic checks of a resource or a resource type contending for the lock
\* of one scope (WaitToRun treats a prototype as it treats a resource type).
\* A periodic check never reads build.StartTime, and a plan with a
\* FromVersion takes the path of a plan without one whose last check failed.
LiveInit ==
    /\ Init /\ IsPeriodic(plan) /\ plan.Prototype = "" /\ plan.FromVersion = "nil"
    /\ build.StartTime = StartClock
    /\ BuildIdle /\ DoIdle /\ AcrossIdle /\ ImageIdle /\ PointIdle /\ GetIdle

\* Fair scheduling: every call keeps taking its steps, and every node that
\* was told to run its check runs it to the end, which releases the lock.
Fairness ==
    \A n \in Nodes :
        /\ WF_<<vars, others>>(CallStep(n))
        /\ WF_<<vars, others>>(HolderStep(n))

SpecLive == LiveInit /\ [][LiveNext]_<<vars, others>> /\ Fairness

\* C26: WaitToRun termination.  Under fair scheduling, with every lock holder
\* running its check to the end and so releasing the lock, every call of a
\* periodic check eventually returns, however many rounds it has to wait; and
\* a call that saw its context cancelled while waiting for the next round has
\* returned the context error with a nil lock, shouldRun false and no lock held.
C26_Termination ==
    /\ \A n \in Nodes : <>HasReturned(n)
    /\ [](\A n \in Nodes : (HasReturned(n) /\ ret[n].err = "ctx") =>
             /\ ret[n] = Returned("nil", FALSE, "ctx")
             /\ n \in ctxDone
             /\ lockHolder # n)

\* C26 witness: both nodes were told to run and one of them holds the lock
\* after the other has finished its check and released it.
C26_Witness ==
    \E n, m \in Nodes :
        /\ n # m
        /\ pc[m] = "done" /\ ret[m] = Returned("real", TRUE, "nil")
        /\ pc[n] = "returned" /\ ret[n] = Returned("real", TRUE, "nil")
        /\ lockHolder = n
\* =================================================== PointToCheckedConfig
\* The entities PointToCheckedConfig handles, in its order, each written as
\* the field of the plan that names it.
Entities == <<"Resource", "ResourceType", "Prototype">>

EntityIndex(e) == CHOOSE i \in 1..Len(Entities) : Entities[i] = e

\* The names of the plan.
PointPlans == [Resource : {"", "r"}, ResourceType : {"", "t"}, Prototype : {"", "p"}]

\* A delegate that takes every entity as named.
Named_Always(p, e) == TRUE

\* d.plan.Resource != "" and its like: the plan names the entity.
Named(p, e) == p[e] # ""

\* Results of build.Pipeline() and of pipeline.Resource(name) and its like,
\* apart from whether the entity is there.
CallResults == {"ok", "err"}

NoError == [kind |-> "nil", e |-> "none"]

PointCalled ==
    /\ qpc = "lookup"
    /\ qplan \in PointPlans
    /\ qpipeline \in SUBSET {Entities[i] : i \in 1..Len(Entities)}
    /\ qcachedPipeline \in BOOLEAN
    /\ qcached \in SUBSET {e \in qpipeline : Named(qplan, e)}
    /\ qcached # {} => qcachedPipeline
    /\ qidx = 1
    /\ qops = <<>>
    /\ qret = [returned |-> FALSE, err |-> NoError]

\* return err
PointReturn(kind, e) ==
    /\ qpc' = "returned"
    /\ qidx' = qidx
    /\ qret' = [returned |-> TRUE, err |-> [kind |-> kind, e |-> e]]

\* PointToCheckedConfig goes on to the next entity, or returns nil after the last.
PointAdvance ==
    IF qidx = Len(Entities)
      THEN PointReturn("nil", "none")
      ELSE qpc' = "lookup" /\ qidx' = qidx + 1 /\ qret' = qret

\* d.resource(), d.resourceType() or d.prototype(), with d.pipeline(), and
\* the test of found.
Lookup(e) ==
    /\ qpc = "lookup" /\ Entities[qidx] = e
    /\ IF ~Named(qplan, e)
         THEN PointAdvance /\ UNCHANGED <<qops, qcachedPipeline, qcached>>
         ELSE IF e \in qcached
           THEN /\ qpc' = "bind" /\ qidx' = qidx /\ qret' = qret
                /\ UNCHANGED <<qops, qcachedPipeline, qcached>>
           ELSE \E pres \in CallResults \cup {"notfound"} : \E lres \in CallResults :
             LET pipelineOps == IF qcachedPipeline THEN <<>>
                                ELSE <<[op |-> "build.Pipeline", e |-> e, ok |-> pres = "ok"]>>
                 found == e \in qpipeline
                 lookupOp == [op |-> "pipeline.lookup", e |-> e,
                              ok |-> lres = "ok" /\ found]
             IN IF ~qcachedPipeline /\ pres # "ok"
                  THEN /\ PointReturn("get", e)
                       /\ qops' = qops \o pipelineOps
                       /\ UNCHANGED <<qcachedPipeline, qcached>>
                  ELSE /\ qcachedPipeline' = TRUE
                       /\ qops' = (qops \o pipelineOps) \o <<lookupOp>>
                       /\ IF lookupOp.ok
                            THEN /\ qcached' = qcached \cup {e}
                                 /\ qpc' = "bind" /\ qidx' = qidx /\ qret' = qret
                            ELSE /\ qcached' = qcached
                                 /\ PointReturn("get", e)
    /\ UNCHANGED <<pointRest, qplan, qpipeline>>

\* resource.SetResourceConfigScope(scope) and its like.
SetScope(e) ==
    /\ qpc = "bind" /\ Entities[qidx] = e
    /\ \E ok \in BOOLEAN :
          /\ qops' = Append(qops, [op |-> "SetResourceConfigScope", e |-> e, ok |-> ok])
          /\ IF ok THEN PointAdvance ELSE PointReturn("set", e)
    /\ UNCHANGED <<pointRest, qplan, qpipeline, qcachedPipeline, qcached>>

PointNext ==
    \/ \E i \in 1..Len(Entities) : Lookup(Entities[i])
    \/ \E i \in 1..Len(Entities) : SetScope(Entities[i])

PointInit ==
    PointCalled /\ WaitIdle /\ BuildIdle /\ DoIdle /\ AcrossIdle /\ ImageIdle /\ GetIdle

SpecPoint == PointInit /\ [][PointNext]_<<vars, others>>
\* ------------------------------------------ claims, PointToCheckedConfig
EntitySet == {Entities[i] : i \in 1..Len(Entities)}

\* SetResourceConfigScope has been called on entity e.
ScopeSet(e) ==
    \E j \in 1..Len(qops) : qops[j].op = "SetResourceConfigScope" /\ qops[j].e = e

\* The call has returned and no lookup or binding failed before entity e was
\* looked up, nor did the lookup of e.
Handled(e) ==
    /\ qret.returned
    /\ \/ qret.err.kind = "nil"
       \/ /\ qret.err.kind # "nil"
          /\ \/ EntityIndex(e) < EntityIndex(qret.err.e)
             \/ e = qret.err.e /\ qret.err.kind = "set"

\* C25: PointToCheckedConfig binds the scope to whichever is set.
\* SetResourceConfigScope is called on the resource, the resource type and
\* the prototype exactly when the plan names the entity and the pipeline has
\* it, up to the first failure: a failed lookup or binding is returned as an
\* error and no later call is made.  With the three names empty the call
\* returns nil and makes no pipeline lookup and no binding.
C25_PointToCheckedConfig ==
    /\ \A e \in EntitySet :
          /\ ScopeSet(e) => (qplan[e] # "" /\ e \in qpipeline)
          /\ Cardinality({j \in 1..Len(qops) :
                 qops[j].op = "SetResourceConfigScope" /\ qops[j].e = e}) <= 1
          /\ qret.returned =>
                (ScopeSet(e) <=> (qplan[e] # "" /\ e \in qpipeline /\ Handled(e)))
    /\ (\A e \in EntitySet : qplan[e] = "") =>
          (qops = <<>> /\ qret.err = NoError)
    /\ \A j \in 1..Len(qops) :
          /\ j < Len(qops) => qops[j].ok
          /\ ~qops[j].ok => (qret.returned /\ qret.err.kind # "nil" /\ qret.err.e = qops[j].e)
    /\ (qret.returned /\ qret.err.kind # "nil") =>
          (qops # <<>> /\ ~qops[Len(qops)].ok)

\* C25 witness: binding the resource failed, and the resource type, named by
\* the plan and present in the pipeline, was not bound.
C25_Witness ==
    /\ qret.returned /\ qret.err = [kind |-> "set", e |-> "Resource"]
    /\ qplan.ResourceType # "" /\ "ResourceType" \in qpipeline
    /\ ScopeSet("Resource") /\ ~ScopeSet("ResourceType")
\* =============================================================== GetStep
\* Two sibling Get steps of an InParallel, sharing the artifact repository
\* of the build's RunState.
GetSteps == {"get1", "get2"}

\* atc.GetPlan: the artifact name, and the pipeline resource ("" for an
\* anonymous get).
GetPlans == [Name : {"a", "b"}, Resource : {"", "r"}]

\* getResult.ExitStatus values; NoExit before RunGetStep has returned one.
ExitStatuses == {0, 1}
NoExit == -1

NoRun == [returned |-> FALSE, err |-> "nil"]

GetStarted ==
    /\ gpc = [g \in GetSteps |-> "start"]
    /\ gplan \in [GetSteps -> GetPlans]
    /\ gplan["get1"].Name = "a"
    /\ gexit = [g \in GetSteps |-> NoExit]
    /\ gtrace = [g \in GetSteps |-> <<>>]
    /\ grepo = [name \in {"a", "b"} |-> "none"]
    /\ greg = [g \in GetSteps |-> "none"]
    /\ gsucceeded = [g \in GetSteps |-> FALSE]
    /\ gret = [g \in GetSteps |-> NoRun]

\* getResult.ExitStatus == 0 taken as true of every status.
ExitedZero_Any(status) == TRUE

\* getResult.ExitStatus == 0.
ExitedZero(status) == status = 0

\* step.plan.Resource != "" taken as true of every plan.
UpdatesVersion_Always(p) == TRUE

\* step.plan.Resource != "".
UpdatesVersion(p) == p.Resource # ""

\* ArtifactRepository.RegisterArtifact: the answer to a registration of name,
\* and the repository after step g registered its artifact under name.  A
\* name is bound once; a second registration is refused.
RegisterAnswer(repo, name) ==
    IF repo[name] = "none" THEN "ok" ELSE "duplicate"

Registered(repo, name, g) ==
    IF repo[name] = "none" THEN [repo EXCEPT ![name] = g] ELSE repo

\* A record of the calls with the latest call first.
Traced_Prepend(g, c) == gtrace' = [gtrace EXCEPT ![g] = <<c>> \o @]

\* Step g makes the call c on its delegate or on the repository.
Traced(g, c) == gtrace' = [gtrace EXCEPT ![g] = Append(@, c)]

\* Step g goes on at position next.
GoOn(g, next) == gpc' = [gpc EXCEPT ![g] = next] /\ gret' = gret

\* run returns err, and the step's wrapper reports the error to the delegate.
RunErrored(g, err) ==
    /\ gpc' = [gpc EXCEPT ![g] = "returned"]
    /\ gret' = [gret EXCEPT ![g] = [returned |-> TRUE, err |-> err]]
    /\ Traced(g, "Errored")

\* delegate.Initializing(logger).
GetInitializing(g) ==
    /\ gpc[g] = "start"
    /\ Traced(g, "Initializing")
    /\ GoOn(g, "creds")
    /\ UNCHANGED <<getRest, gplan, gexit, grepo, greg, gsucceeded>>

\* Evaluation of source, params and resource types, and the version.
EvaluateCreds(g) ==
    /\ gpc[g] = "creds"
    /\ \E ok \in BOOLEAN :
          IF ok THEN GoOn(g, "cache") /\ gtrace' = gtrace
                ELSE RunErrored(g, "evaluate")
    /\ UNCHANGED <<getRest, gplan, gexit, grepo, greg, gsucceeded>>

\* resourceCacheFactory.FindOrCreateResourceCache.
FindOrCreateResourceCache(g) ==
    /\ gpc[g] = "cache"
    /\ \E ok \in BOOLEAN :
          IF ok THEN GoOn(g, "select") /\ gtrace' = gtrace
                ELSE RunErrored(g, "resource cache")
    /\ UNCHANGED <<getRest, gplan, gexit, grepo, greg, gsucceeded>>

\* workerClient.RunGetStep: a worker is chosen and reported to the delegate.
SelectWorker(g) ==
    /\ gpc[g] = "select"
    /\ \E ok \in BOOLEAN :
          IF ok THEN GoOn(g, "spawn") /\ Traced(g, "SelectedWorker")
                ELSE RunErrored(g, "run get step")
    /\ UNCHANGED <<getRest, gplan, gexit, grepo, greg, gsucceeded>>

\* ... the container is there and the process is about to start.
StartProcess(g) ==
    /\ gpc[g] = "spawn"
    /\ \E ok \in BOOLEAN :
          IF ok THEN GoOn(g, "running") /\ Traced(g, "Starting")
                ELSE RunErrored(g, "run get step")
    /\ UNCHANGED <<getRest, gplan, gexit, grepo, greg, gsucceeded>>

\* ... the process exits and RunGetStep returns its result, or an error.
RunGetStep(g) ==
    /\ gpc[g] = "running"
    /\ \/ /\ RunErrored(g, "run get step")
          /\ gexit' = gexit
       \/ \E status \in ExitStatuses :
             /\ gexit' = [gexit EXCEPT ![g] = status]
             /\ GoOn(g, IF ExitedZero(status) THEN "register" ELSE "finish")
             /\ gtrace' = gtrace
    /\ UNCHANGED <<getRest, gplan, grepo, greg, gsucceeded>>
\* state.ArtifactRepository().RegisterArtifact(name, getResult.GetArtifact),
\* a call whose result run does not look at.
RegisterArtifact(g) ==
    /\ gpc[g] = "register"
    /\ Traced(g, "RegisterArtifact")
    /\ greg' = [greg EXCEPT ![g] = RegisterAnswer(grepo, gplan[g].Name)]
    /\ grepo' = Registered(grepo, gplan[g].Name, g)
    /\ GoOn(g, IF UpdatesVersion(gplan[g]) THEN "update" ELSE "finish")
    /\ UNCHANGED <<getRest, gplan, gexit, gsucceeded>>

\* delegate.UpdateVersion(logger, step.plan, getResult.VersionResult).
UpdateVersion(g) ==
    /\ gpc[g] = "update"
    /\ Traced(g, "UpdateVersion")
    /\ GoOn(g, "finish")
    /\ UNCHANGED <<getRest, gplan, gexit, grepo, greg, gsucceeded>>

\* step.succeeded = true after exit status 0, delegate.Finished, return nil.
Finished(g) ==
    /\ gpc[g] = "finish"
    /\ gsucceeded' = [gsucceeded EXCEPT ![g] = ExitedZero(gexit[g])]
    /\ Traced(g, "Finished")
    /\ gpc' = [gpc EXCEPT ![g] = "returned"]
    /\ gret' = [gret EXCEPT ![g] = [returned |-> TRUE, err |-> "nil"]]
    /\ UNCHANGED <<getRest, gplan, gexit, grepo, greg>>

GetNext ==
    \/ \E g \in GetSteps : GetInitializing(g)
    \/ \E g \in GetSteps : EvaluateCreds(g)
    \/ \E g \in GetSteps : FindOrCreateResourceCache(g)
    \/ \E g \in GetSteps : SelectWorker(g)
    \/ \E g \in GetSteps : StartProcess(g)
    \/ \E g \in GetSteps : RunGetStep(g)
    \/ \E g \in GetSteps : RegisterArtifact(g)
    \/ \E g \in GetSteps : UpdateVersion(g)
    \/ \E g \in GetSteps : Finished(g)

GetInit ==
    GetStarted /\ WaitIdle /\ BuildIdle /\ DoIdle /\ AcrossIdle /\ ImageIdle /\ PointIdle

SpecGet == GetInit /\ [][GetNext]_<<vars, others>>
\* ------------------------------------------------------- claims, GetStep
\* Where step g made the call c, and whether it made it.
CallsOf(g, c) == {j \in 1..Len(gtrace[g]) : gtrace[g][j] = c}
Called(g, c) == CallsOf(g, c) # {}

\* C21: Get step outcome.  A Get step registers an artifact under plan.Name
\* and has Succeeded() true exactly when RunGetStep returned no error and exit
\* status 0; after a nonzero exit status Run returns nil, Succeeded() is false
\* and nothing is registered; after an error of the evaluation, of the
\* resource cache or of RunGetStep, Run returns the error, Succeeded() is
\* false and nothing is registered.
C21_GetOutcome ==
    \A g \in GetSteps :
        /\ gsucceeded[g] => (Called(g, "RegisterArtifact") /\ gexit[g] = 0)
        /\ Called(g, "RegisterArtifact") => gexit[g] = 0
        /\ gret[g].returned =>
              /\ (Called(g, "RegisterArtifact") /\ gsucceeded[g])
                    <=> (gret[g].err = "nil" /\ gexit[g] = 0)
              /\ Called(g, "RegisterArtifact") <=> gsucceeded[g]
              /\ gexit[g] \notin {0, NoExit} =>
                    (gret[g].err = "nil" /\ ~gsucceeded[g]
                        /\ ~Called(g, "RegisterArtifact"))
              /\ gret[g].err # "nil" =>
                    (gexit[g] = NoExit /\ ~gsucceeded[g]
                        /\ ~Called(g, "RegisterArtifact"))
              /\ gret[g].err = "nil" => gexit[g] # NoExit

\* C21 witness: one step exited with a nonzero status and the other with 0.
C21_Witness ==
    /\ gret["get1"].returned /\ gexit["get1"] = 1 /\ ~gsucceeded["get1"]
    /\ gret["get2"].returned /\ gexit["get2"] = 0 /\ gsucceeded["get2"]
    /\ Called("get2", "RegisterArtifact")

\* C22: artifact name uniqueness under concurrency.  When two sibling Get
\* steps both exit 0 and register the same Name, one registration succeeds
\* and keeps the binding, and the other step gets a duplicate-registration
\* error from its run.
C22_ArtifactUniqueness ==
    \A g, h \in GetSteps :
        (/\ g # h
         /\ gret[g].returned /\ gret[h].returned
         /\ gexit[g] = 0 /\ gexit[h] = 0
         /\ gplan[g].Name = gplan[h].Name) =>
            \E first \in {g, h} : \E second \in {g, h} \ {first} :
                /\ grepo[gplan[g].Name] = first
                /\ greg[first] = "ok" /\ gret[first].err = "nil"
                /\ gret[second].err = "duplicate registration"

\* C23: version pointer update.  delegate.UpdateVersion is called once when
\* plan.Resource is set and the process exited 0, and never otherwise; the
\* call comes after the registration of the artifact and before Finished.
C23_UpdateVersion ==
    \A g \in GetSteps :
        /\ Cardinality(CallsOf(g, "UpdateVersion")) <= 1
        /\ \A j \in CallsOf(g, "UpdateVersion") :
              /\ gplan[g].Resource # "" /\ gexit[g] = 0
              /\ \E i \in CallsOf(g, "RegisterArtifact") : i < j
              /\ \A k \in CallsOf(g, "Finished") : j < k
        /\ gret[g].returned =>
              (Called(g, "UpdateVersion") <=>
                  (gplan[g].Resource # "" /\ gexit[g] = 0 /\ gret[g].err = "nil"))
        /\ (gret[g].returned /\ Called(g, "UpdateVersion")) => Called(g, "Finished")

\* C23 witness: a get of a pipeline resource ran to the end.
C23_Witness ==
    \E g \in GetSteps :
        gtrace[g] = <<"Initializing", "SelectedWorker", "Starting",
                      "RegisterArtifact", "UpdateVersion", "Finished">>

\* The events before the terminal one, in the claimed order, and the terminal ones.
EventOrder == <<"Initializing", "SelectedWorker", "Starting">>
TerminalEvents == {"Finished", "Errored"}

IsEvent(c) == c \in TerminalEvents \/ \E i \in 1..Len(EventOrder) : EventOrder[i] = c

EventRank(c) ==
    IF c \in TerminalEvents THEN Len(EventOrder) + 1
    ELSE CHOOSE i \in 1..Len(EventOrder) : EventOrder[i] = c

\* The events step g has emitted.
EventsOf(g) == SelectSeq(gtrace[g], IsEvent)

====
